---- MODULE Spec2Model ----
(***************************************************************************)
(* Model of the serial-port adapters of sugo-module-serialport.            *)
(*                                                                         *)
(* Four adapter variants live in the sources:                              *)
(*   "ctx"   function-style module, context-style calls ({params, pipe}),  *)
(*           src/lib/sugo_module_serialport.js                             *)
(*   "pos"   function-style module, positional calls,                      *)
(*           src/lib/sugo_interface_serialport.js lines 101-446            *)
(*   "class" class Serialport extends Module,                              *)
(*           src/test/index_test.js lines 28-378                           *)
(*   "iface" interface, src/lib/sugo_interface_serialport.js lines 1-99    *)
(*           (ping, assert); its connection, I/O and idle timer are not    *)
(*           in the sources and are modelled from the written              *)
(*           specification.                                                *)
(*                                                                         *)
(* The native driver (package serialport) and the promise machinery are    *)
(* the environment: the driver is a nondeterministic state machine that    *)
(* opens, fails, emits events and completes callbacks in any order; a      *)
(* promise settles at most once.  Values are strings throughout: "true",   *)
(* "false", "null" and "undefined" stand for the JavaScript values.        *)
(* The adapter's event surface is assumed to accept every event name,      *)
(* 'error' included.                                                       *)
(***************************************************************************)
EXTENDS Integers, Sequences, FiniteSets, TLC

\* ---------------------------------------------------------------- bounds
MaxCalls == 3
MaxDrivers == 2
MaxEvents == 3

\* ------------------------------------------------------------- constants
Variants == {"ctx", "pos", "class", "iface"}
FunctionStyle == {"ctx", "pos"}
Instances == {"A", "B"}
Undefined == "undefined"
Null == "null"
NoErr == Undefined
NOT_CONNECT == "Serialport is not connected"
CtorError == "ctorError"
DriverErrors == {"e1"}
DataVals == {"d1"}
PortLists == {"ports0", "ports1"}
PingArgs == {Undefined, "", "a"}
Timeouts == {"finite", "Infinity", Undefined}
\* Length of a finite timeout in clock ticks; setTimeout with an undefined
\* delay fires at once.
TimeoutTicks == 2
Delay(t) == IF t = "finite" THEN TimeoutTicks ELSE 0
NoTimer == [pending |-> {}, idle |-> 0]
pipeEvents == <<"data", "error", "close", "disconnect", "open">>
bins == <<"node">>
NoDriver == 0
DriverIds == 1..MaxDrivers

CallbackOps == {"open", "write", "flush", "drain", "close", "set", "update"}
SyncOps == {"pause", "resume", "isOpen"}
IoOps == CallbackOps \cup SyncOps

VARIABLES
  variant,      \* which adapter variant is under test
  host,         \* commands present on the host
  timeout,      \* config.timeout (read by the interface variant only)
  _serialport,  \* module-level slot of the function-style variants
  _driver,      \* per-instance slot of the class variant
  drivers,      \* native port objects, by id
  calls,        \* invocations of adapter methods and their promises
  emitted,      \* events emitted by the drivers, in emission order
  surface,      \* events observed on the adapter's event surface
  thrown,       \* errors thrown out of a driver callback (uncaught)
  timer,        \* idle timer of the interface variant: the timers pending
                \* (ticks left of each) and the ticks since the last arming
  autoClose,    \* port whose close, issued by the idle timer, is awaited
  logged        \* errors logged by the idle timer's close

vars == <<variant, host, timeout, _serialport, _driver, drivers, calls,
          emitted, surface, thrown, timer, autoClose, logged>>

\* --------------------------------------------------------------- promise
\* A promise settles at most once: later resolve/reject calls are ignored.
Settle(p, st, val) ==
  IF p.st = "pending" THEN [p EXCEPT !.st = st, !.val = val] ELSE p

Resolve(p, val) == Settle(p, "resolved", val)
Reject(p, err) == Settle(p, "rejected", err)

\* The inner promise of the class variant's connect (awaited by co).
SettleInner(p, st, val) ==
  IF p.inner = "pending" THEN [p EXCEPT !.inner = st, !.innerVal = val] ELSE p

NewCall(op, inst, arg) ==
  [op |-> op, inst |-> inst, arg |-> arg, st |-> "pending", val |-> Undefined,
   d |-> NoDriver, dcalls |-> 0, cb |-> "none", cbErr |-> Undefined,
   cbVal |-> Undefined, inner |-> "none", innerVal |-> Undefined, pc |-> 0]

CallIds == 1..Len(calls)
CanCall == Len(calls) < MaxCalls

\* ---------------------------------------------------------------- driver
AbsentDriver == [st |-> "absent", paused |-> FALSE, listeners |-> <<>>]

Constructed == {d \in DriverIds : drivers[d].st # "absent"}
NextDriver == Cardinality(Constructed) + 1

InitWith(V, H, T) ==
  /\ variant \in V
  /\ host \in H
  /\ timeout \in T
  /\ _serialport = NoDriver
  /\ _driver = [i \in Instances |-> NoDriver]
  /\ drivers = [d \in DriverIds |-> AbsentDriver]
  /\ calls = <<>>
  /\ emitted = <<>>
  /\ surface = <<>>
  /\ thrown = {}
  /\ timer = NoTimer
  /\ autoClose = NoDriver
  /\ logged = {}

\* The variants whose connection and I/O code is in the sources, on a host
\* that has node.
Init == InitWith({"ctx", "pos", "class"}, {{"node"}}, {Undefined})

\* ------------------------------------------------------------------ ping
\* ctx / iface: params[0] || 'pong'; pos / class: default parameter.
Falsy(x) == x \in {Undefined, Null, "", "false"}

PingResult(v, x) ==
  IF v \in {"ctx", "iface"}
    THEN (IF Falsy(x) THEN "pong" ELSE x)
    ELSE (IF x = Undefined THEN "pong" ELSE x)

ping(i, x) ==
  /\ CanCall
  /\ calls' = Append(calls, Resolve(NewCall("ping", i, x), PingResult(variant, x)))
  /\ UNCHANGED <<variant, host, timeout, _serialport, _driver, drivers,
                 emitted, surface, thrown, timer, autoClose, logged>>

\* ---------------------------------------------------------------- assert
name(v) == IF v = "iface" THEN "sugo-interface-serialport" ELSE "sugo-module-serialport"

CommandNotFound(v, bin) == "[" \o name(v) \o "] Command not found: " \o bin

\* A started assert() sits before its first hasBin check.
assert(i) ==
  /\ CanCall
  /\ calls' = Append(calls, [NewCall("assert", i, Undefined) EXCEPT !.pc = 1])
  /\ UNCHANGED <<variant, host, timeout, _serialport, _driver, drivers,
                 emitted, surface, thrown, timer, autoClose, logged>>

\* assertAck that ignores the outcome of hasBin.
assertAckStep_IgnoreMissing(p) ==
  IF p.pc = Len(bins) THEN Resolve(p, "true") ELSE [p EXCEPT !.pc = @ + 1]

\* One turn of the loop of assertAck: ok = yield hasBin(bin); pc is the
\* index of the command being checked, so pc commands have been checked
\* when the promise settles.
assertAckStep(p) ==
  LET bin == bins[p.pc] IN
  IF bin \notin host THEN Reject(p, CommandNotFound(variant, bin))
  ELSE IF p.pc = Len(bins) THEN Resolve(p, "true")
  ELSE [p EXCEPT !.pc = @ + 1]

\* Class variant: yield hasBin.assertAll(bins) (sg-check), taken to fail on
\* the first missing command of the list.
assertAll(p) ==
  LET missing == {k \in 1..Len(bins) : bins[k] \notin host} IN
  IF missing = {} THEN [Resolve(p, "true") EXCEPT !.pc = Len(bins)]
  ELSE LET k == CHOOSE m \in missing : \A n \in missing : m <= n
       IN [Reject(p, CommandNotFound(variant, bins[k])) EXCEPT !.pc = k]

assertAck(c) ==
  /\ c \in CallIds
  /\ calls[c].op = "assert"
  /\ calls[c].st = "pending"
  /\ calls' = [calls EXCEPT ![c] = IF variant = "class" THEN assertAll(@)
                                   ELSE assertAckStep(@)]
  /\ UNCHANGED <<variant, host, timeout, _serialport, _driver, drivers,
                 emitted, surface, thrown, timer, autoClose, logged>>

\* ------------------------------------------------------------------ list
\* list() hands one callback to the driver's static enumeration call.
list(i) ==
  /\ CanCall
  /\ variant # "iface"
  /\ calls' = Append(calls, [NewCall("list", i, Undefined) EXCEPT
                               !.cb = "waiting", !.dcalls = 1])
  /\ UNCHANGED <<variant, host, timeout, _serialport, _driver, drivers,
                 emitted, surface, thrown, timer, autoClose, logged>>

\* The callback handed to Driver.list: function-style variants throw the
\* error inside the callback (the promise is left pending), the class
\* variant rejects with it.
listThrows(v, err) == v \in FunctionStyle /\ err # NoErr

listSettle(v, p, err, ports) ==
  IF err # NoErr
    THEN (IF v \in FunctionStyle THEN p ELSE Reject(p, err))
    ELSE Resolve(p, ports)

listCallback(c, err, ports) ==
  /\ c \in CallIds
  /\ calls[c].op = "list"
  /\ calls[c].cb = "waiting"
  /\ calls' = [calls EXCEPT ![c] = [listSettle(variant, @, err, ports)
                                      EXCEPT !.cb = "fired", !.cbErr = err, !.cbVal = ports]]
  /\ thrown' = IF listThrows(variant, err) THEN thrown \cup {err} ELSE thrown
  /\ UNCHANGED <<variant, host, timeout, _serialport, _driver, drivers,
                 emitted, surface, timer, autoClose, logged>>

\* ------------------------------------------------------------ event relay
\* A class variant whose instances all read the slot of one of them.
Slot_Shared(i) == IF variant = "class" THEN _driver["A"] ELSE _serialport

\* The slot an instance reads: the class variant keeps it in the instance,
\* the other variants in one module-level variable.
Slot(i) == IF variant = "class" THEN _driver[i] ELSE _serialport

CanEmit(n) == Len(emitted) + n <= MaxEvents

\* The event surface a connection call forwards to: ctx.pipe of that call,
\* or the adapter instance (s / this).
SurfaceOf(v, i, c) == IF v = "ctx" THEN "pipe" \o ToString(c) ELSE i

\* portsPipe that stops one event name short.
portsPipe_DropLast(events, to) ==
  [k \in 1..(Len(events) - 1) |-> [ev |-> events[k], act |-> "emit", to |-> to, c |-> 0]]

\* portsPipe / pipeEvents loop: one forwarding listener per event name.
portsPipe(events, to) ==
  [k \in 1..Len(events) |-> [ev |-> events[k], act |-> "emit", to |-> to, c |-> 0]]

\* Arming that does not look at the configured timeout.
ArmTimer_IgnoreInfinity(t) == [pending |-> {Delay(timeout)}, idle |-> 0]

\* Arming that leaves the timer armed before in place.
ArmTimer_KeepPrevious(t) ==
  IF timeout = "Infinity" THEN t
  ELSE [pending |-> t.pending \cup {Delay(timeout)}, idle |-> 0]

\* Idle timer of the interface variant: armed unless timeout is Infinity;
\* arming replaces the timer that was pending.
ArmTimer(t) ==
  IF timeout = "Infinity" THEN t
  ELSE [pending |-> {Delay(timeout)}, idle |-> 0]

\* Interface variant: the connection promise settles on the driver's first
\* open or error, and a successful open arms the idle timer.
ifaceListener(l, d, data, s) ==
  IF l.act = "opened"
    THEN [s EXCEPT !.calls[l.c] = Resolve(@, Undefined), !.timer = ArmTimer(@)]
    ELSE [s EXCEPT !.calls[l.c] = Reject(@, data)]

\* What one listener does when its event is emitted.
ApplyListener(l, d, data, s) ==
  CASE l.act = "emit" ->
         [s EXCEPT !.surface = Append(@, [to |-> l.to, d |-> d, ev |-> l.ev, data |-> data])]
    [] l.act = "resolve" ->
         [s EXCEPT !.calls[l.c] = SettleInner(@, "resolved", Undefined)]
    [] l.act = "reject" ->
         [s EXCEPT !.calls[l.c] = SettleInner(@, "rejected", data)]
    [] OTHER -> ifaceListener(l, d, data, s)

\* EventEmitter.emit: the listeners of the event run synchronously, in the
\* order they were registered.
RECURSIVE Deliver(_, _, _, _, _)
Deliver(ls, ev, d, data, s) ==
  IF ls = <<>> THEN s
  ELSE Deliver(Tail(ls), ev, d, data,
               IF Head(ls).ev = ev THEN ApplyListener(Head(ls), d, data, s) ELSE s)

Emit(d, ev, data, s) ==
  Deliver(drivers[d].listeners, ev, d, data,
          [s EXCEPT !.emitted = Append(@, [d |-> d, ev |-> ev, data |-> data])])

Now == [calls |-> calls, surface |-> surface, emitted |-> emitted, timer |-> timer]

Commit(s) ==
  /\ calls' = s.calls
  /\ surface' = s.surface
  /\ emitted' = s.emitted
  /\ timer' = s.timer

\* --------------------------------------------------------------- connect
\* connect that does not subscribe reject to the driver's error.
connectListeners_NoErrorListener(v, i, c) ==
  portsPipe(pipeEvents, SurfaceOf(v, i, c))
    \o <<[ev |-> "open", act |-> "resolve", to |-> "", c |-> c]>>

\* Listeners a connection call registers on its new driver.
connectListeners(v, i, c) ==
  IF v = "class"
    THEN portsPipe(pipeEvents, SurfaceOf(v, i, c))
           \o <<[ev |-> "error", act |-> "reject", to |-> "", c |-> c],
                [ev |-> "open", act |-> "resolve", to |-> "", c |-> c]>>
    ELSE portsPipe(pipeEvents, SurfaceOf(v, i, c))

\* A connection call that keeps the handle the slot already holds.
storesAtConstruction_OnlyFirst(v) == v # "class" /\ _serialport = NoDriver

\* Whether the call writes the slot as soon as the driver is constructed.
storesAtConstruction(v) == v # "class"

\* The promise of a connection call right after the driver was constructed.
connectPromise(v, p, d) ==
  IF v = "class" THEN [p EXCEPT !.d = d, !.inner = "pending"]
  ELSE [p EXCEPT !.d = d]

\* SerialPort(ctx) / SerialPort(path, options) / connect(path, options):
\* ctor is what new Driver(path, options) does.
connect(i, ctor) ==
  /\ CanCall
  /\ variant # "iface"
  /\ LET c == Len(calls) + 1
         d == NextDriver
         nc == NewCall("connect", i, Undefined)
     IN
     IF ctor = "throw"
       THEN /\ calls' = Append(calls, Reject(nc, CtorError))
            /\ UNCHANGED <<_serialport, drivers>>
       ELSE /\ d \in DriverIds
            /\ calls' = Append(calls, connectPromise(variant, nc, d))
            /\ drivers' = [drivers EXCEPT ![d] =
                 [st |-> "opening", paused |-> FALSE,
                  listeners |-> connectListeners(variant, i, c)]]
            /\ _serialport' = IF storesAtConstruction(variant) THEN d ELSE _serialport
  /\ UNCHANGED <<variant, host, timeout, _driver, emitted, surface, thrown,
                 timer, autoClose, logged>>

\* connect resumed by a co that assigns the handle only to an empty slot.
connectResume_KeepFirst(c) ==
  /\ c \in CallIds
  /\ calls[c].op = "connect"
  /\ calls[c].st = "pending"
  /\ calls[c].inner \in {"resolved", "rejected"}
  /\ IF calls[c].inner = "resolved"
       THEN /\ _driver' = IF _driver[calls[c].inst] # NoDriver THEN _driver
                          ELSE [_driver EXCEPT ![calls[c].inst] = calls[c].d]
            /\ calls' = [calls EXCEPT ![c] = Resolve(@, Undefined)]
       ELSE /\ _driver' = _driver
            /\ calls' = [calls EXCEPT ![c] = Reject(@, calls[c].innerVal)]
  /\ UNCHANGED <<variant, host, timeout, _serialport, drivers, emitted, surface,
                 thrown, timer, autoClose, logged>>

\* Class variant: co resumes connect after the awaited promise settled;
\* s._driver = driver runs only on the resolved path.
connectResume(c) ==
  /\ c \in CallIds
  /\ calls[c].op = "connect"
  /\ calls[c].st = "pending"
  /\ calls[c].inner \in {"resolved", "rejected"}
  /\ IF calls[c].inner = "resolved"
       THEN /\ _driver' = [_driver EXCEPT ![calls[c].inst] = calls[c].d]
            /\ calls' = [calls EXCEPT ![c] = Resolve(@, Undefined)]
       ELSE /\ _driver' = _driver
            /\ calls' = [calls EXCEPT ![c] = Reject(@, calls[c].innerVal)]
  /\ UNCHANGED <<variant, host, timeout, _serialport, drivers, emitted, surface,
                 thrown, timer, autoClose, logged>>

\* ------------------------------------------------------------------- I/O
\* Guard of an adapter that forgets its handle once the port is closed.
Guard_ClosedIsEmpty(v, op, d) ==
  IF d # NoDriver /\ drivers[d].st # "closed" THEN "pass"
  ELSE IF v = "class" /\ op = "isOpen" THEN "null"
  ELSE "reject"

\* Guard with every variant's isOpen written as _driver && _driver.isOpen().
Guard_LenientIsOpen(v, op, d) ==
  IF d # NoDriver THEN "pass"
  ELSE IF op = "isOpen" THEN "null"
  ELSE "reject"

\* The not-connected guard: assert.ok(_serialport, NOT_CONNECT), the driver
\* getter of the class variant, or _driver && ... in its isOpen.
Guard(v, op, d) ==
  IF d # NoDriver THEN "pass"
  ELSE IF v = "class" /\ op = "isOpen" THEN "null"
  ELSE "reject"

\* _handle that issues the driver call again when the callback reports an
\* error.
_handle_Retry(v, p, err) ==
  IF err # NoErr THEN [p EXCEPT !.dcalls = @ + 1] ELSE Resolve(p, Undefined)

\* _handle that drops the callback's outcome.
_handle_Ignore(v, p, err) == p

\* _handle with resolve() called before the error is looked at.
_handle_ResolveFirst(v, p, err) ==
  IF err # NoErr THEN Reject(Resolve(p, Undefined), err) ELSE Resolve(p, Undefined)

\* _handle(resolve, reject)(err)
_handle(v, p, err) ==
  IF v = "class"
    THEN (IF err # NoErr THEN Reject(p, err) ELSE Resolve(p, Undefined))
    ELSE Resolve(IF err # NoErr THEN Reject(p, err) ELSE p, Undefined)

\* isOpen whose generator forgets to return the driver's answer.
isOpenResult_NoReturn(d) == Undefined

\* _serialport.isOpen()
isOpenResult(d) == IF drivers[d].st = "open" THEN "true" ELSE "false"

io(i, op) ==
  /\ CanCall
  /\ variant # "iface"
  /\ LET d == Slot(i)
         nc == NewCall(op, i, Undefined)
         g == Guard(variant, op, d)
         called == [nc EXCEPT !.d = d, !.dcalls = 1]
     IN
     CASE g = "reject" ->
            /\ calls' = Append(calls, Reject(nc, NOT_CONNECT))
            /\ UNCHANGED <<drivers, timer>>
       [] g = "null" ->
            /\ calls' = Append(calls, Resolve(nc, Null))
            /\ UNCHANGED <<drivers, timer>>
       [] g = "pass" /\ op \in CallbackOps ->
            /\ calls' = Append(calls, [called EXCEPT !.cb = "waiting"])
            /\ UNCHANGED <<drivers, timer>>
       [] g = "pass" /\ op = "isOpen" ->
            /\ calls' = Append(calls, Resolve(called, isOpenResult(d)))
            /\ UNCHANGED <<drivers, timer>>
       [] g = "pass" /\ op \in {"pause", "resume"} ->
            /\ calls' = Append(calls, Resolve(called, Undefined))
            /\ drivers' = [drivers EXCEPT ![d].paused = (op = "pause")]
            /\ UNCHANGED timer
  /\ UNCHANGED <<variant, host, timeout, _serialport, _driver, emitted, surface,
                 thrown, autoClose, logged>>

\* ------------------------------------------------- driver (environment)
\* The continuation of a settled promise runs as a microtask, before the
\* driver's next callback or event: no connect is waiting to be resumed.
microtasksDrained ==
  \A c \in CallIds :
    ~(calls[c].st = "pending" /\ calls[c].inner \in {"resolved", "rejected"})

\* The outcomes the driver can report for a method, given the port's state.
CanSucceed(op, st) == IF op = "open" THEN st = "closed" ELSE st = "open"

\* The driver completes a callback-style call.
driverCallback(c, err) ==
  /\ microtasksDrained
  /\ c \in CallIds
  /\ calls[c].op \in CallbackOps
  /\ calls[c].cb = "waiting"
  /\ LET d == calls[c].d
         op == calls[c].op
         s0 == [Now EXCEPT !.calls[c] = [_handle(variant, @, err) EXCEPT !.cb = "fired", !.cbErr = err]]
     IN
     IF err # NoErr
       THEN Commit(s0) /\ UNCHANGED drivers
       ELSE /\ CanSucceed(op, drivers[d].st)
            /\ CASE op = "open" ->
                      /\ CanEmit(1)
                      /\ drivers' = [drivers EXCEPT ![d].st = "open"]
                      /\ Commit(Emit(d, "open", Undefined, s0))
                 [] op = "close" ->
                      /\ CanEmit(1)
                      /\ drivers' = [drivers EXCEPT ![d].st = "closed"]
                      /\ Commit(Emit(d, "close", Undefined, s0))
                 [] OTHER -> Commit(s0) /\ UNCHANGED drivers
  /\ UNCHANGED <<variant, host, timeout, _serialport, _driver, thrown,
                 autoClose, logged>>

\* A misbehaving driver invokes a completion callback a second time.
driverCallbackAgain(c, err) ==
  /\ microtasksDrained
  /\ c \in CallIds
  /\ calls[c].op \in CallbackOps
  /\ calls[c].cb = "fired"
  /\ calls' = [calls EXCEPT ![c] = [_handle(variant, @, err) EXCEPT !.cb = "fired2"]]
  /\ UNCHANGED <<variant, host, timeout, _serialport, _driver, drivers, emitted,
                 surface, thrown, timer, autoClose, logged>>

\* The port opens after construction.
driverOpened(d) ==
  /\ microtasksDrained
  /\ d \in DriverIds
  /\ drivers[d].st = "opening"
  /\ CanEmit(1)
  /\ drivers' = [drivers EXCEPT ![d].st = "open"]
  /\ Commit(Emit(d, "open", Undefined, Now))
  /\ UNCHANGED <<variant, host, timeout, _serialport, _driver, thrown,
                 autoClose, logged>>

\* The driver reports an error; an opening port may give up on it.
driverError(d, e, fail) ==
  /\ microtasksDrained
  /\ d \in DriverIds
  /\ drivers[d].st \in {"opening", "open"}
  /\ fail => drivers[d].st = "opening"
  /\ CanEmit(1)
  /\ drivers' = [drivers EXCEPT ![d].st = IF fail THEN "closed" ELSE @]
  /\ Commit(Emit(d, "error", e, Now))
  /\ UNCHANGED <<variant, host, timeout, _serialport, _driver, thrown,
                 autoClose, logged>>

driverData(d, v) ==
  /\ microtasksDrained
  /\ d \in DriverIds
  /\ drivers[d].st = "open"
  /\ ~drivers[d].paused
  /\ CanEmit(1)
  /\ Commit(Emit(d, "data", v, Now))
  /\ UNCHANGED <<variant, host, timeout, _serialport, _driver, drivers, thrown,
                 autoClose, logged>>

\* The device goes away: disconnect, then close.
driverDisconnect(d, e) ==
  /\ microtasksDrained
  /\ d \in DriverIds
  /\ drivers[d].st = "open"
  /\ CanEmit(2)
  /\ drivers' = [drivers EXCEPT ![d].st = "closed"]
  /\ Commit(Emit(d, "close", Undefined, Emit(d, "disconnect", e, Now)))
  /\ UNCHANGED <<variant, host, timeout, _serialport, _driver, thrown,
                 autoClose, logged>>

\* ------------------------------------------- interface variant: idle timer
\* Connection call of the interface variant: the driver is stored in the
\* slot when it is constructed; the promise settles on open or error.
ifaceConnect(i, ctor) ==
  /\ CanCall
  /\ variant = "iface"
  /\ LET c == Len(calls) + 1
         d == NextDriver
         nc == NewCall("connect", i, Undefined)
     IN
     IF ctor = "throw"
       THEN /\ calls' = Append(calls, Reject(nc, CtorError))
            /\ UNCHANGED <<_serialport, drivers>>
       ELSE /\ d \in DriverIds
            /\ calls' = Append(calls, [nc EXCEPT !.d = d])
            /\ drivers' = [drivers EXCEPT ![d] =
                 [st |-> "opening", paused |-> FALSE,
                  listeners |-> portsPipe(pipeEvents, i)
                    \o <<[ev |-> "error", act |-> "failed", to |-> "", c |-> c],
                         [ev |-> "open", act |-> "opened", to |-> "", c |-> c]>>]]
            /\ _serialport' = d
  /\ UNCHANGED <<variant, host, timeout, _driver, emitted, surface, thrown,
                 timer, autoClose, logged>>

\* write and close of the interface variant; every write re-arms the timer.
ifaceIo(i, op) ==
  /\ CanCall
  /\ variant = "iface"
  /\ op \in {"write", "close"}
  /\ LET nc == NewCall(op, i, Undefined) IN
     IF _serialport = NoDriver
       THEN /\ calls' = Append(calls, Reject(nc, NOT_CONNECT))
            /\ timer' = timer
       ELSE /\ calls' = Append(calls, [nc EXCEPT !.d = _serialport, !.dcalls = 1,
                                                !.cb = "waiting"])
            /\ timer' = IF op = "write" THEN ArmTimer(timer) ELSE timer
  /\ UNCHANGED <<variant, host, timeout, _serialport, _driver, drivers, emitted,
                 surface, thrown, autoClose, logged>>

\* Time passes while a timer is pending and none is due; the ticks since
\* the last arming are counted up to the length of the timeout.
tick ==
  /\ timer.pending # {}
  /\ \A n \in timer.pending : n > 0
  /\ timer' = [pending |-> {n - 1 : n \in timer.pending},
               idle |-> IF timer.idle < TimeoutTicks THEN timer.idle + 1
                        ELSE timer.idle]
  /\ UNCHANGED <<variant, host, timeout, _serialport, _driver, drivers, calls,
                 emitted, surface, thrown, autoClose, logged>>

\* A timer callback that forgets to close the port.
timerFire_NoClose ==
  /\ 0 \in timer.pending
  /\ autoClose = NoDriver
  /\ timer' = [timer EXCEPT !.pending = @ \ {0}]
  /\ UNCHANGED <<variant, host, timeout, _serialport, _driver, drivers, calls,
                 emitted, surface, thrown, autoClose, logged>>

\* The idle timer fires: the adapter calls close on the port in the slot;
\* autoClose is the port whose close is awaited.
timerFire ==
  /\ 0 \in timer.pending
  /\ autoClose = NoDriver
  /\ timer' = [timer EXCEPT !.pending = @ \ {0}]
  /\ autoClose' = _serialport
  /\ UNCHANGED <<variant, host, timeout, _serialport, _driver, drivers, calls,
                 emitted, surface, thrown, logged>>

\* The driver completes the timer's close; a failure is logged only.
autoCloseCallback(err) ==
  /\ autoClose # NoDriver
  /\ autoClose' = NoDriver
  /\ IF err # NoErr
       THEN /\ logged' = logged \cup {err}
            /\ UNCHANGED <<drivers, calls, emitted, surface, timer>>
       ELSE /\ CanSucceed("close", drivers[autoClose].st)
            /\ CanEmit(1)
            /\ drivers' = [drivers EXCEPT ![autoClose].st = "closed"]
            /\ Commit(Emit(autoClose, "close", Undefined, Now))
            /\ logged' = logged
  /\ UNCHANGED <<variant, host, timeout, _serialport, _driver, thrown>>

\* ------------------------------------------------------- method tables
\* Own property names of the adapter object (of Serialport.prototype in the
\* class variant).
ownNames(v) ==
  CASE v = "iface" -> {"ping", "assert", "$spec"}
    [] v \in FunctionStyle ->
         {"ping", "assert", "list", "SerialPort", "open", "isOpen", "write",
          "pause", "resume", "flush", "drain", "close", "set", "update", "$spec"}
    [] v = "class" ->
         {"constructor", "ping", "assert", "driver", "list", "connect", "open",
          "isOpen", "write", "pause", "resume", "flush", "drain", "close", "set",
          "update", "$spec"}

\* $spec.methods without the entry of open.
specMethods_NoOpen(v) ==
  IF v = "iface" THEN {"ping"}
  ELSE {"ping", "assert", "list", IF v = "class" THEN "connect" ELSE "SerialPort",
        "close", "drain", "flush", "isOpen", "pause", "resume", "set", "update",
        "write"}

\* Keys of $spec.methods.
specMethods(v) ==
  CASE v = "iface" -> {"ping", "assert"}
    [] v \in FunctionStyle ->
         {"ping", "assert", "list", "SerialPort", "close", "drain", "flush",
          "isOpen", "open", "pause", "resume", "set", "update", "write"}
    [] v = "class" ->
         {"ping", "assert", "list", "connect", "close", "drain", "flush",
          "isOpen", "open", "pause", "resume", "set", "update", "write"}

\* !/^[\$_]/.test(name)
isPublic(n) == Head(n) \notin {"$", "_"}

\* The class variant's test also leaves out constructor and driver.
implemented(v) ==
  {n \in ownNames(v) : isPublic(n) /\ (v = "class" => n \notin {"constructor", "driver"})}

described(v) == {n \in specMethods(v) : isPublic(n)}

\* ping, assert and list on any variant and host, around a connection.
NextProbe ==
  \/ \E i \in Instances, x \in PingArgs : ping(i, x)
  \/ \E i \in Instances : assert(i)
  \/ \E c \in CallIds : assertAck(c)
  \/ \E i \in Instances : list(i)
  \/ \E c \in CallIds, ports \in PortLists : listCallback(c, NoErr, ports)
  \/ \E c \in CallIds, err \in DriverErrors : listCallback(c, err, Undefined)
  \/ \E i \in Instances : connect(i, "ok")
  \/ \E c \in CallIds : connectResume(c)
  \/ \E d \in DriverIds : driverOpened(d)

InitProbe == InitWith(Variants, SUBSET {"node"}, {Undefined})

SpecProbe == InitProbe /\ [][NextProbe]_vars

\* The interface variant with its idle timer.
NextTimer ==
  \/ \E i \in Instances, ctor \in {"ok", "throw"} : ifaceConnect(i, ctor)
  \/ \E i \in Instances, op \in {"write", "close"} : ifaceIo(i, op)
  \/ tick
  \/ timerFire
  \/ \E err \in DriverErrors \cup {NoErr} : autoCloseCallback(err)
  \/ \E c \in CallIds, err \in DriverErrors \cup {NoErr} : driverCallback(c, err)
  \/ \E d \in DriverIds : driverOpened(d)
  \/ \E d \in DriverIds, e \in DriverErrors, fail \in BOOLEAN : driverError(d, e, fail)
  \/ \E d \in DriverIds, e \in DriverErrors : driverDisconnect(d, e)

InitTimer == InitWith({"iface"}, {{"node"}}, Timeouts)

SpecTimer == InitTimer /\ [][NextTimer]_vars

\* Time passes, a due timer fires, and the driver answers the timer's
\* close.
FairTimer ==
  /\ SpecTimer
  /\ WF_vars(tick)
  /\ WF_vars(timerFire)
  /\ WF_vars(\E err \in DriverErrors \cup {NoErr} : autoCloseCallback(err))

Next ==
  \/ \E i \in Instances, ctor \in {"ok", "throw"} : connect(i, ctor)
  \/ \E c \in CallIds : connectResume(c)
  \/ \E i \in Instances, op \in IoOps : io(i, op)
  \/ \E c \in CallIds, err \in DriverErrors \cup {NoErr} : driverCallback(c, err)
  \/ \E c \in CallIds, err \in DriverErrors \cup {NoErr} : driverCallbackAgain(c, err)
  \/ \E d \in DriverIds : driverOpened(d)
  \/ \E d \in DriverIds, e \in DriverErrors, fail \in BOOLEAN : driverError(d, e, fail)
  \/ \E d \in DriverIds, v \in DataVals : driverData(d, v)
  \/ \E d \in DriverIds, e \in DriverErrors : driverDisconnect(d, e)

Spec == Init /\ [][Next]_vars
\* =================================================================== claims
\* The step appends one invocation; New is that invocation after the step.
Appended == Len(calls') = Len(calls) + 1
New == calls'[Len(calls')]

GuardedOps == {"write", "close", "flush", "drain", "pause", "resume", "set",
               "update", "isOpen"}

FirstReport(d) ==
  LET ks == {k \in 1..Len(emitted) : emitted[k].d = d /\ emitted[k].ev \in {"open", "error"}}
  IN IF ks = {} THEN [ev |-> "none", data |-> Undefined]
     ELSE LET k == CHOOSE m \in ks : \A n \in ks : m <= n
          IN [ev |-> emitted[k].ev, data |-> emitted[k].data]

\* The class variant's connect is about to be resumed by co.
ResumePending(c) == calls[c].st = "pending" /\ calls[c].inner \in {"resolved", "rejected"}

\* C2: the promise of a connection call rejects when the driver constructor
\* throws, is resolved once the driver has reported open first, and is
\* rejected with the error once the driver has reported error first (as
\* soon as no continuation of the call is left to run).
C2_ConnectSettles ==
  \A c \in CallIds :
    calls[c].op = "connect" =>
      IF calls[c].d = NoDriver
        THEN calls[c].st = "rejected" /\ calls[c].val = CtorError
        ELSE LET r == FirstReport(calls[c].d) IN
             ~ResumePending(c) =>
               /\ r.ev = "open" => calls[c].st = "resolved"
               /\ r.ev = "error" => calls[c].st = "rejected" /\ calls[c].val = r.data

\* C3: a callback-style operation on a connected adapter stays pending until
\* the driver's callback fires, rejects with the callback's own error or
\* resolves when there is none, and keeps that outcome when the callback is
\* invoked again.
C3_CallbackSettlesOnce ==
  \A c \in CallIds :
    (calls[c].op \in CallbackOps /\ calls[c].d # NoDriver) =>
      /\ calls[c].cb = "waiting" => calls[c].st = "pending"
      /\ calls[c].cb \in {"fired", "fired2"} =>
           IF calls[c].cbErr # NoErr
             THEN calls[c].st = "rejected" /\ calls[c].val = calls[c].cbErr
             ELSE calls[c].st = "resolved" /\ calls[c].val = Undefined

C3_Witness ==
  \E a, b \in CallIds :
    /\ calls[a].op = "write" /\ calls[a].cb = "fired2" /\ calls[a].st = "rejected"
    /\ calls[b].op = "close" /\ calls[b].cb = "fired" /\ calls[b].st = "resolved"

\* The surface the events of driver d are forwarded to: that of the
\* connection call that constructed d.
SurfaceOfDriver(d) ==
  LET c == CHOOSE x \in CallIds : calls[x].op = "connect" /\ calls[x].d = d
  IN IF variant = "ctx" THEN "pipe" \o ToString(c) ELSE calls[c].inst

\* C4: every event a driver has emitted is on the event surface of its
\* connection call exactly once, with its payload, in emission order.
C4_EventsRelayedOnce ==
  /\ Len(surface) = Len(emitted)
  /\ \A k \in 1..Len(emitted) :
       surface[k] = [to |-> SurfaceOfDriver(emitted[k].d), d |-> emitted[k].d,
                     ev |-> emitted[k].ev, data |-> emitted[k].data]

C4_Witness ==
  \E j, k \in 1..Len(surface) :
    /\ j < k
    /\ surface[j].ev = "open"
    /\ surface[k].ev = "disconnect" /\ surface[k].data \in DriverErrors
    /\ _serialport # NoDriver \/ \E i \in Instances : _driver[i] # NoDriver

\* C5: list() makes one enumeration call; when the callback reports an
\* error the promise rejects with it, and when it reports ports the promise
\* resolves with that array.
C5_ListPropagates ==
  \A c \in CallIds :
    calls[c].op = "list" =>
      /\ calls[c].dcalls = 1
      /\ calls[c].cb = "fired" =>
           IF calls[c].cbErr # NoErr
             THEN calls[c].st = "rejected" /\ calls[c].val = calls[c].cbErr
             ELSE calls[c].st = "resolved" /\ calls[c].val = calls[c].cbVal

\* C6: ping(x) resolves to x for every string given, the empty one included,
\* and to 'pong' when the argument is omitted.
C6_PingEchoes ==
  \A c \in CallIds :
    calls[c].op = "ping" =>
      /\ calls[c].st = "resolved"
      /\ calls[c].val = IF calls[c].arg = Undefined THEN "pong" ELSE calls[c].arg

\* The first command of the allow-list missing on the host, 0 if none.
FirstMissing ==
  LET ks == {k \in 1..Len(bins) : bins[k] \notin host}
  IN IF ks = {} THEN 0 ELSE CHOOSE m \in ks : \A n \in ks : m <= n

\* C7: a step of assert() leaves the slot and the drivers alone; when it
\* settles, it resolves to true if every listed command is on the host and
\* otherwise rejects naming the first missing command, no later command
\* having been checked.
C7_AssertChecksBins ==
  [][\A c \in 1..Len(calls') :
       (calls'[c].op = "assert" /\ (c \in CallIds => calls'[c] # calls[c]))
         => /\ UNCHANGED <<_serialport, _driver, drivers>>
            /\ calls'[c].d = NoDriver /\ calls'[c].dcalls = 0
            /\ calls'[c].st # "pending" =>
                 IF FirstMissing = 0
                   THEN calls'[c].st = "resolved" /\ calls'[c].val = "true"
                   ELSE /\ calls'[c].st = "rejected"
                        /\ calls'[c].val = CommandNotFound(variant, bins[FirstMissing])
                        /\ calls'[c].pc = FirstMissing]_vars

C7_Witness ==
  \E a, b \in CallIds :
    /\ calls[a].op = "connect" /\ calls[a].d # NoDriver /\ Slot(calls[a].inst) = calls[a].d
    /\ calls[b].op = "assert" /\ calls[b].st = "rejected" /\ a < b
    /\ drivers[calls[a].d].st = "open"

\* C8: the implemented public method names are exactly the keys of
\* $spec.methods, in every variant.
C8_MethodsMatchSpec ==
  /\ implemented(variant) = described(variant)
  /\ described(variant) = specMethods(variant)

C8_Witness ==
  /\ variant = "class"
  /\ "connect" \in implemented(variant)
  /\ "driver" \in ownNames(variant) \ implemented(variant)
  /\ \E c \in CallIds : calls[c].op = "connect" /\ calls[c].st = "resolved"

\* Driver d has reported neither close nor disconnect nor error.
Untroubled(d) ==
  \A k \in 1..Len(emitted) :
    emitted[k].d = d => emitted[k].ev \notin {"close", "disconnect", "error"}

\* C9: once connect has resolved on an instance and no port connected on it
\* has reported close, disconnect or error, isOpen() on that instance
\* resolves to true: the slot holds a driver that opened, and isOpen returns
\* that driver's own state.
C9_IsOpenAfterConnect ==
  [][(/\ Appended
      /\ New.op = "isOpen"
      /\ \E c \in CallIds :
           /\ calls[c].op = "connect" /\ calls[c].st = "resolved"
           /\ calls[c].inst = New.inst
      /\ \A c \in CallIds :
           (calls[c].op = "connect" /\ calls[c].st = "resolved"
              /\ calls[c].inst = New.inst) => Untroubled(calls[c].d))
       => /\ New.st = "resolved"
          /\ New.val = "true"
          /\ New.dcalls = 1
          /\ New.d = Slot(New.inst)]_vars

C9_Witness ==
  \E a, b \in CallIds :
    /\ calls[a].op = "connect" /\ calls[a].st = "resolved"
    /\ calls[b].op = "isOpen" /\ calls[b].inst = calls[a].inst
    /\ calls[b].val = "true" /\ a < b
\* C10 (as stated): with a finite timeout, once the idle timer has fired and
\* its close has been answered, with no write and no close by a caller, the
\* port in the slot is closed.
C10_IdlePortIsClosed ==
  (/\ timeout = "finite"
   /\ _serialport # NoDriver
   /\ FirstReport(_serialport).ev = "open"
   /\ \A c \in CallIds : calls[c].op = "connect"
   /\ Cardinality(Constructed) = 1
   /\ timer.pending = {} /\ autoClose = NoDriver)
    => drivers[_serialport].st = "closed"

\* C10 (amended): with a finite timeout, an armed idle timer leads to the
\* adapter itself calling close on the port in the slot, and that call
\* leads to the port being closed or, when the close fails, to the failure
\* being logged; an idle port is never left open by an answered timer close
\* without a logged failure.
C10_IdleTimerCloses ==
  /\ (timeout = "finite" /\ timer.pending # {}) ~> (autoClose # NoDriver)
  /\ \A d \in DriverIds :
       (autoClose = d)
         ~> (autoClose = NoDriver /\ (drivers[d].st = "closed" \/ logged # {}))
  /\ [](C10_IdlePortIsClosed \/ logged # {})

C10_Witness ==
  /\ timeout = "finite"
  /\ \A c \in CallIds : calls[c].op = "connect"
  /\ _serialport # NoDriver
  /\ drivers[_serialport].st = "closed"
  /\ timer.pending = {} /\ autoClose = NoDriver
  /\ logged = {}
  /\ \E k \in 1..Len(emitted) : emitted[k].ev = "close"
  /\ \A k \in 1..Len(emitted) : emitted[k].ev \in {"open", "close"}

\* How often driver d has reported close, how often it has reported
\* disconnect, and how many close() calls of callers it has completed.
CloseEvents(d) ==
  Cardinality({k \in 1..Len(emitted) : emitted[k].d = d /\ emitted[k].ev = "close"})
Disconnects(d) ==
  Cardinality({k \in 1..Len(emitted) : emitted[k].d = d /\ emitted[k].ev = "disconnect"})
CallerCloses(d) ==
  Cardinality({c \in CallIds : /\ calls[c].op = "close" /\ calls[c].d = d
                               /\ calls[c].cb \in {"fired", "fired2"}
                               /\ calls[c].cbErr = NoErr})

\* C11: with timeout = Infinity the idle timer is never armed and the
\* adapter never has a close of its own under way; every close a port has
\* reported was caused by a completed close() call of a caller or by the
\* driver's own disconnect.
C11_InfinityNeverAutoCloses ==
  timeout = "Infinity" =>
    /\ timer = NoTimer
    /\ autoClose = NoDriver
    /\ \A d \in DriverIds : CloseEvents(d) = CallerCloses(d) + Disconnects(d)

C11_Witness ==
  /\ timeout = "Infinity"
  /\ \E a, b \in CallIds :
       /\ calls[a].op = "connect" /\ calls[a].st = "resolved"
       /\ calls[b].op = "write" /\ calls[b].d = calls[a].d
       /\ calls[b].cb = "fired" /\ calls[b].st = "resolved"
       /\ drivers[calls[a].d].st = "open"
       /\ _serialport = calls[a].d
  /\ Len(calls) = MaxCalls

\* C12: an I/O invocation makes one driver call when the slot is populated
\* and none when it is empty; no later step adds a driver call to it or
\* moves it to another handle, and an error reported by the driver's
\* callback rejects the invocation for good.
C12_NoRetry ==
  [][/\ (Appended /\ New.op \in IoOps)
          => New.dcalls = IF Slot(New.inst) # NoDriver THEN 1 ELSE 0
     /\ \A c \in CallIds :
          calls[c].op \in IoOps =>
            /\ calls'[c].dcalls = calls[c].dcalls
            /\ calls'[c].d = calls[c].d
            /\ calls[c].cb # "waiting" => calls'[c].cb # "waiting"
            /\ (calls[c].cb = "waiting" /\ calls'[c].cb = "fired"
                  /\ calls'[c].cbErr # NoErr)
                 => calls'[c].st = "rejected" /\ calls'[c].val = calls'[c].cbErr
            /\ calls[c].st = "rejected"
                 => calls'[c].st = "rejected" /\ calls'[c].val = calls[c].val]_vars

C12_Witness ==
  \E a, b \in CallIds :
    /\ calls[a].op = "write" /\ calls[a].dcalls = 0 /\ calls[a].val = NOT_CONNECT
    /\ calls[b].op = "write" /\ calls[b].dcalls = 1 /\ calls[b].cb = "fired2"
    /\ calls[b].cbErr \in DriverErrors /\ calls[b].st = "rejected"

\* The slot instance i reads after the step.
SlotAfter(i) == IF variant = "class" THEN _driver'[i] ELSE _serialport'

\* C13: a populated slot is never emptied by any step (close and its
\* completion, and the driver's close, disconnect and error included); so on
\* a populated slot whose port is closed, isOpen() resolves to the driver's
\* own answer, false, and every other guarded operation passes the guard
\* and is issued to the handle in the slot.
C13_SlotNeverCleared ==
  [][/\ \A i \in Instances : Slot(i) # NoDriver => SlotAfter(i) # NoDriver
     /\ (Appended /\ New.op \in GuardedOps /\ Slot(New.inst) # NoDriver
           /\ drivers[Slot(New.inst)].st = "closed")
          => /\ New.d = Slot(New.inst)
             /\ New.dcalls = 1
             /\ New.val # NOT_CONNECT
             /\ IF New.op = "isOpen"
                  THEN New.st = "resolved" /\ New.val = "false"
                  ELSE New.op \in CallbackOps => New.cb = "waiting"]_vars

C13_Witness ==
  \E a, b, c \in CallIds :
    /\ calls[a].op = "connect" /\ calls[a].d # NoDriver
    /\ calls[b].op = "close" /\ calls[b].st = "resolved" /\ calls[b].d = calls[a].d
    /\ calls[c].op = "isOpen" /\ calls[c].st = "resolved" /\ calls[c].val = "false"
    /\ calls[c].d = calls[a].d /\ b < c
    /\ Slot(calls[c].inst) = calls[a].d
    /\ \E k \in 1..Len(emitted) : emitted[k].ev = "close" /\ emitted[k].d = calls[a].d

\* The step delivers an open of a port to the adapter.
OpenDelivered ==
  /\ Len(emitted') > Len(emitted)
  /\ emitted'[Len(emitted')].ev = "open"

\* C14: at most one idle timer is pending; unless the timeout is Infinity,
\* every delivered open and every write on a populated slot leaves exactly
\* the newly armed timer pending, with the full timeout to run; and when
\* the timer fires (the adapter starts its own close), at least the timeout
\* has passed since the most recent write or open, and no timer is left.
C14_SingleIdleTimer ==
  [][/\ Cardinality(timer'.pending) <= 1
     /\ (timeout # "Infinity"
           /\ \/ OpenDelivered
              \/ Appended /\ New.op = "write" /\ New.d # NoDriver)
          => timer' = [pending |-> {Delay(timeout)}, idle |-> 0]
     /\ (autoClose = NoDriver /\ autoClose' # NoDriver)
          => /\ timer.idle >= Delay(timeout)
             /\ timer'.pending = {}]_vars

C14_Witness ==
  /\ timeout = "finite"
  /\ autoClose # NoDriver
  /\ timer.pending = {}
  /\ timer.idle = TimeoutTicks
  /\ \E a, b \in CallIds :
       /\ calls[a].op = "write" /\ calls[a].d = autoClose
       /\ calls[b].op = "write" /\ calls[b].d = autoClose /\ a < b

\* The step in which a connection call writes its handle into the slot:
\* the construction of the driver in the function-style variants, the
\* resumption after the driver's open in the class variant.
Stores(c) ==
  /\ c \in 1..Len(calls')
  /\ calls'[c].op = "connect"
  /\ calls'[c].d # NoDriver
  /\ IF variant = "class"
       THEN c \in CallIds /\ calls[c].st = "pending" /\ calls'[c].st = "resolved"
       ELSE c = Len(calls) + 1

\* C15: a connection call that succeeds on a populated slot puts its own
\* handle in the slot; in that step the previous handle keeps its state and
\* its listeners and no close is issued; every driver call of an I/O
\* operation goes to the handle in the slot at that time; and no step takes
\* a listener off a driver.
C15_ReconnectOverwrites ==
  [][/\ \A c \in 1..Len(calls') :
          Stores(c) =>
            /\ SlotAfter(calls'[c].inst) = calls'[c].d
            /\ \A d \in Constructed : drivers'[d] = drivers[d]
            /\ \A x \in 1..Len(calls') :
                 calls'[x].op = "close" => x \in CallIds /\ calls'[x] = calls[x]
            /\ autoClose' = NoDriver
     /\ (Appended /\ New.op \in IoOps /\ New.dcalls = 1)
          => New.d = SlotAfter(New.inst)
     /\ \A d \in Constructed : drivers'[d].listeners = drivers[d].listeners]_vars

C15_Witness ==
  \E a, b, w \in CallIds :
    /\ a < b /\ b < w
    /\ calls[a].op = "connect" /\ calls[a].d # NoDriver
    /\ calls[b].op = "connect" /\ calls[b].d # NoDriver
    /\ calls[a].inst = calls[b].inst
    /\ Slot(calls[b].inst) = calls[b].d
    /\ drivers[calls[a].d].st = "open"
    /\ drivers[calls[b].d].st = "open"
    /\ calls[w].op = "write" /\ calls[w].d = calls[b].d
    /\ \E k \in 1..Len(emitted) :
         /\ emitted[k].d = calls[a].d /\ emitted[k].ev = "data"
         /\ surface[k].d = calls[a].d /\ surface[k].ev = "data"
         /\ \E j \in 1..(k - 1) : emitted[j].d = calls[b].d /\ emitted[j].ev = "open"

\* The position in emitted of driver d's open when open is the first thing
\* d reported, 0 otherwise.
OpenedAt(d) ==
  LET ks == {k \in 1..Len(emitted) : emitted[k].d = d /\ emitted[k].ev \in {"open", "error"}}
  IN IF ks = {} THEN 0
     ELSE LET k == CHOOSE m \in ks : \A n \in ks : m <= n
          IN IF emitted[k].ev = "open" THEN k ELSE 0

\* The drivers of connection calls on instance i that opened.
ConnectedOn(i) ==
  {d \in Constructed :
     /\ OpenedAt(d) > 0
     /\ \E c \in CallIds : calls[c].op = "connect" /\ calls[c].inst = i /\ calls[c].d = d}

\* C16: in the class variant, once the continuations have run, the slot of
\* an instance holds the driver, among those its connection calls opened,
\* whose open was delivered last (none if none opened); in the
\* function-style variants it holds the driver constructed last; and no
\* port reports a close that was not caused by a caller's completed close()
\* on it or by its own disconnect, an orphaned handle included.
C16_LastWriterWins ==
  /\ []((variant = "class" /\ microtasksDrained) =>
          \A i \in Instances :
            IF ConnectedOn(i) = {} THEN _driver[i] = NoDriver
            ELSE /\ _driver[i] \in ConnectedOn(i)
                 /\ \A x \in ConnectedOn(i) : OpenedAt(x) <= OpenedAt(_driver[i]))
  /\ [](variant \in FunctionStyle => _serialport = Cardinality(Constructed))
  /\ [](\A d \in Constructed : CloseEvents(d) = CallerCloses(d) + Disconnects(d))

C16_Witness ==
  /\ variant = "class"
  /\ \E a, b \in CallIds :
       /\ a < b
       /\ calls[a].op = "connect" /\ calls[a].st = "resolved"
       /\ calls[b].op = "connect" /\ calls[b].st = "resolved"
       /\ calls[a].inst = calls[b].inst
       /\ 0 < OpenedAt(calls[b].d)
       /\ OpenedAt(calls[b].d) < OpenedAt(calls[a].d)
       /\ _driver[calls[a].inst] = calls[a].d
       /\ drivers[calls[b].d].st = "open"
       /\ \A k \in 1..Len(emitted) : emitted[k].ev # "close"

\* Write w and close x, called in this order, both wait for the driver's
\* callback on the same handle.
BothWaiting(w, x) ==
  /\ w < x
  /\ calls[w].op = "write" /\ calls[w].cb = "waiting"
  /\ calls[x].op = "close" /\ calls[x].cb = "waiting"
  /\ calls[w].d = calls[x].d

\* C17: a close called while a write waits for its callback is issued once
\* to the handle in the slot and leaves the write waiting; while both wait,
\* the driver may complete either of them first, with or without an error;
\* and a callback-style promise settles in the step of its own driver
\* callback and in no other, that step settling no other promise.
C17_WriteCloseUnordered ==
  /\ [][\A w \in CallIds :
          (calls[w].op \in CallbackOps /\ calls[w].d # NoDriver) =>
            /\ (Appended /\ New.op = "close" /\ calls[w].op = "write"
                  /\ calls[w].cb = "waiting" /\ Slot(New.inst) = calls[w].d)
                 => /\ New.d = calls[w].d /\ New.dcalls = 1
                    /\ New.cb = "waiting" /\ New.st = "pending"
                    /\ calls'[w] = calls[w]
            /\ calls'[w].st # calls[w].st
                 => calls[w].cb = "waiting" /\ calls'[w].cb = "fired"
            /\ (calls[w].cb = "waiting" /\ calls'[w].cb = "fired")
                 => /\ calls'[w].st # "pending"
                    /\ \A x \in CallIds \ {w} : calls'[x].st = calls[x].st]_vars
  /\ [](\A w, x \in CallIds :
          (BothWaiting(w, x) /\ microtasksDrained) =>
            /\ \A err \in DriverErrors :
                 ENABLED driverCallback(w, err) /\ ENABLED driverCallback(x, err)
            /\ (drivers[calls[w].d].st = "open" /\ CanEmit(1))
                 => ENABLED driverCallback(w, NoErr) /\ ENABLED driverCallback(x, NoErr))

C17_Witness ==
  \E w, x \in CallIds :
    /\ w < x
    /\ calls[w].op = "write" /\ calls[w].cb = "waiting" /\ calls[w].st = "pending"
    /\ calls[x].op = "close" /\ calls[x].cb = "fired" /\ calls[x].st = "resolved"
    /\ calls[w].d = calls[x].d
    /\ drivers[calls[x].d].st = "closed"

\* C18: a connection call whose driver constructor throws rejects with the
\* constructor's error and changes neither a slot nor a driver; in the class
\* variant a driver that reported error before open is never in a slot,
\* also after it has reported open, and its connection call is rejected
\* with that error once its continuation has run.
C18_FailedConnectKeepsSlot ==
  /\ [][(Appended /\ New.op = "connect" /\ New.d = NoDriver)
          => /\ New.st = "rejected" /\ New.val = CtorError
             /\ UNCHANGED <<_serialport, _driver, drivers>>]_vars
  /\ [](variant = "class" =>
          \A c \in CallIds :
            (/\ calls[c].op = "connect" /\ calls[c].d # NoDriver
             /\ FirstReport(calls[c].d).ev = "error")
              => /\ \A i \in Instances : _driver[i] # calls[c].d
                 /\ calls[c].st # "resolved"
                 /\ microtasksDrained
                      => /\ calls[c].st = "rejected"
                         /\ calls[c].val = FirstReport(calls[c].d).data)

C18_Witness ==
  /\ variant = "class"
  /\ \E a, b \in CallIds :
       /\ calls[a].op = "connect" /\ calls[a].st = "resolved"
       /\ calls[b].op = "connect" /\ calls[b].st = "rejected"
       /\ calls[b].d # NoDriver /\ calls[a].inst = calls[b].inst
       /\ _driver[calls[a].inst] = calls[a].d
       /\ FirstReport(calls[b].d).ev = "error"
       /\ drivers[calls[b].d].st = "open"
       /\ \E k \in 1..Len(emitted) : emitted[k].d = calls[b].d /\ emitted[k].ev = "open"
  /\ \E c \in CallIds : calls[c].op = "connect" /\ calls[c].val = CtorError

\* C19: in the class variant the slot of an instance changes only in the
\* step in which a connection call of that very instance stores its handle,
\* and it only ever holds a handle constructed by a connection call of that
\* instance; a guarded operation fails the guard exactly when the slot of
\* its own instance is empty, whatever the other instances hold, and is
\* otherwise issued to its own instance's handle.  In the function-style
\* variants every instance's operation is issued to the one shared slot.
C19_InstancesDoNotCollide ==
  /\ [][variant = "class" =>
          /\ \A i \in Instances :
               _driver'[i] # _driver[i]
                 => \E c \in 1..Len(calls') : Stores(c) /\ calls'[c].inst = i
          /\ (Appended /\ New.op \in GuardedOps)
               => /\ New.dcalls = 0 <=> _driver[New.inst] = NoDriver
                  /\ New.d = _driver[New.inst]]_vars
  /\ [](variant = "class" =>
          \A i \in Instances :
            _driver[i] # NoDriver
              => \E c \in CallIds : /\ calls[c].op = "connect" /\ calls[c].inst = i
                                    /\ calls[c].d = _driver[i])
  /\ [][(variant \in FunctionStyle /\ Appended /\ New.op \in GuardedOps)
          => New.d = _serialport]_vars

C19_Witness ==
  /\ variant = "class"
  /\ \E a, b, c \in CallIds :
       /\ a < b /\ a < c
       /\ calls[a].op = "connect" /\ calls[a].st = "resolved" /\ calls[a].inst = "A"
       /\ _driver["A"] = calls[a].d /\ _driver["B"] = NoDriver
       /\ calls[b].op = "write" /\ calls[b].inst = "B"
       /\ calls[b].st = "rejected" /\ calls[b].val = NOT_CONNECT
       /\ calls[c].op = "write" /\ calls[c].inst = "A" /\ calls[c].d = calls[a].d
       /\ calls[c].st = "resolved"
====
